---- MODULE Spec2Model ----
(***************************************************************************)
(* The GoodEvil engine of modeling-cell-rs (src/src/simulation.rs) over    *)
(* the Board container (src/src/board.rs).                                 *)
(*                                                                         *)
(* Energies are f32 in the source.  An f32 is modelled by the rational it  *)
(* denotes, <<numerator, denominator>> in lowest terms, and every +, -, *  *)
(* and / of the engine is the exact operation followed by F32Round, the    *)
(* rounding to a 24-bit significand (to nearest, ties to even) that the    *)
(* hardware applies.  Exponent range, infinities and NaN are left out: the *)
(* energies of the model stay between 2^-30 and 2^4 in magnitude.          *)
(***************************************************************************)
EXTENDS Integers, Sequences, FiniteSets, TLC

\* ---------------------------------------------------------------- bounds
MaxWidth == 3
MaxHeight == 2
MaxSpecimens == 4
MaxGen == 2
MaxGenScenario == 12
MaxPasses == 2
MaxPair == 2
MaxLoopSpecimens == 3
DenseSpecimens == 5
MaxNewSpecimens == 5
MaxCoord == 3
MaxValue == 1
MaxTorus == 4
PoolSpecimens == 4
MaxContestants == 3
MaxLife == 3

\* --------------------------------------------------------- f32 arithmetic
\* 2^24: an f32 significand is an integer below it
F32Significand == 16777216

Abs(n) == IF n < 0 THEN -n ELSE n
Sign(n) == IF n < 0 THEN -1 ELSE 1

RECURSIVE Gcd(_, _)
Gcd(a, b) == IF b = 0 THEN a ELSE Gcd(b, a % b)

\* the quotient n/d (d # 0) in lowest terms with a positive denominator
Rat(n, d) ==
    LET g == Gcd(Abs(n), Abs(d))
    IN  <<(Sign(d) * n) \div g, Abs(d) \div g>>

RECURSIVE OddPart(_)
OddPart(d) == IF d % 2 = 0 THEN OddPart(d \div 2) ELSE d

\* num/den rounded to the nearest integer, ties to the even one
RoundHalfEven(num, den) ==
    LET q == num \div den
        r == num % den
    IN  IF 2 * r < den THEN q
        ELSE IF 2 * r > den THEN q + 1
        ELSE IF q % 2 = 0 THEN q ELSE q + 1

\* the least t with a / (c * 2^t) below 2^24
RECURSIVE ShiftDown(_, _, _)
ShiftDown(a, c, t) ==
    IF a \div c < F32Significand THEN t ELSE ShiftDown(a, 2 * c, t + 1)

\* the least s with a * 2^s / c at least 2^23
RECURSIVE ShiftUp(_, _, _)
ShiftUp(a, c, s) ==
    IF 2 * a >= F32Significand * c THEN s ELSE ShiftUp(2 * a, c, s + 1)

RECURSIVE Pow2(_)
Pow2(k) == IF k = 0 THEN 1 ELSE 2 * Pow2(k - 1)

\* the f32 nearest to n/d
F32Round(n, d) ==
    LET r == Rat(n, d)
        a == Abs(r[1])
        c == OddPart(r[2])
        p == r[2] \div c
    IN  IF a = 0 THEN <<0, 1>>
        ELSE IF c = 1 /\ a < F32Significand THEN r
        ELSE IF a \div c >= F32Significand
        THEN LET t == ShiftDown(a, c, 0)
             IN  Rat(Sign(r[1]) * RoundHalfEven(a, c * Pow2(t)) * Pow2(t), p)
        ELSE LET s == ShiftUp(a, c, 0)
             IN  Rat(Sign(r[1]) * RoundHalfEven(a * Pow2(s), c), p * Pow2(s))

\* the operands over their common denominator (both are powers of two)
Aligned(a, b) ==
    LET d == IF a[2] > b[2] THEN a[2] ELSE b[2]
    IN  <<a[1] * (d \div a[2]), b[1] * (d \div b[2]), d>>

RInt(n) == <<n, 1>>
RAdd(a, b) == LET x == Aligned(a, b) IN F32Round(x[1] + x[2], x[3])
RSub(a, b) == LET x == Aligned(a, b) IN F32Round(x[1] - x[2], x[3])
RMul(a, b) == F32Round(a[1] * b[1], a[2] * b[2])
RDiv(a, b) == F32Round(a[1] * b[2] * Sign(b[1]), a[2] * Abs(b[1]))
RLt(a, b) == LET x == Aligned(a, b) IN x[1] < x[2]

\* ------------------------------------------------------------ domain model
Specimen(e) == [energy |-> e]

Empty == [tag |-> "Empty", specimens |-> <<>>]
Occupied(s) == [tag |-> "Occupied", specimens |-> <<s>>]
Collision(ss) == [tag |-> "Collision", specimens |-> ss]

\* ------------------------------------------------------------------- board
\* Board::new: width * height slots, all holding the default
BoardNew(w, h, default) == [i \in 0 .. (w * h - 1) |-> default]

\* mutant: the rows are one slot too short, so that they overlap
Slot_short_rows(w, x, y) == y * (w - 1) + x

\* the slot of (x, y)
Slot(w, x, y) == y * w + x

\* Board::at
at(b, w, x, y) == b[Slot(w, x, y)]

\* Board::at_mut followed by an assignment
at_mut(b, w, x, y, v) == [b EXCEPT ![Slot(w, x, y)] = v]

\* indices_2d: the iterator's initial state
indices_2d(w, h) == [x |-> 0, y |-> 0, x_end |-> w, y_end |-> h]

\* Indices2D::next: whether the iterator still yields an item
IterHasNext(i) == i.y # i.y_end

\* mutant: the row ends where x meets y_end
IterNext_wrapping_at_height(i) ==
    IF i.x + 1 = i.y_end
    THEN [i EXCEPT !.x = 0, !.y = i.y + 1]
    ELSE [i EXCEPT !.x = i.x + 1]

\* Indices2D::next: the iterator after yielding (i.x, i.y)
IterNext(i) ==
    IF i.x + 1 = i.x_end
    THEN [i EXCEPT !.x = 0, !.y = i.y + 1]
    ELSE [i EXCEPT !.x = i.x + 1]

\* torus_neighbors: the iterator's initial state
torus_neighbors(x, y, x_end, y_end) ==
    [x |-> x, y |-> y, idx |-> 0, x_end |-> x_end, y_end |-> y_end]

\* torus_sub_1: whether its assertion fails
torus_sub_1_fails(idx, idx_end) ==
    idx # 0 /\ idx > idx_end /\ idx # idx_end + 1

\* mutant: the wrap past the far edge is forgotten
torus_sub_1_unwrapped(idx, idx_end) ==
    IF idx = 0 THEN idx_end - 1 ELSE idx - 1

\* torus_sub_1 where its assertion holds
torus_sub_1(idx, idx_end) ==
    IF idx = 0 THEN idx_end - 1
    ELSE IF idx > idx_end THEN 0
    ELSE idx - 1

\* TorusNeighbors::next: idx after an item, the center 4 being skipped
TorusIdxNext(idx) == IF idx + 1 = 4 THEN idx + 2 ELSE idx + 1

\* ------------------------------------------------------------------- state
VARIABLES
    cfg,                \* GoodEvilConfig
    width, height,      \* the board's extents
    board,              \* GoodEvil.board
    collision_energy,   \* GoodEvil.collision_energy
    iteration,          \* GoodEvil.iteration
    pc,                 \* position of the program
    fatal,              \* the panic the program ended in, or "none"
    new,                \* the board under construction
    it,                 \* the Indices2D iterator of the running scan
    placed,             \* specimens seeded so far by new()
    probes,             \* probes made by the running find_empty_field
    specimens,          \* advance(): the count taken after the movement phase
    energy_gain,        \* resolve_collisions(): the per-specimen gain
    coll_iters,         \* advance(): resolution passes run so far, up to MaxPasses
    step,               \* what the last scan step did
    pre,                \* the engine when the running advance() began
    out,                \* what the last call handed out: items, a value, statistics
    args                \* the arguments of the call of a pure function

vars == <<cfg, width, height, board, collision_energy, iteration, pc, fatal,
          new, it, placed, probes, specimens, energy_gain, coll_iters, step,
          pre, out, args>>

\* a scan step: its kind, the cell it read, the cell it wrote, the energy placed
StepOf(kind, x, y, tx, ty, e) ==
    [kind |-> kind, x |-> x, y |-> y, tx |-> tx, ty |-> ty, energy |-> e]
NoStep == StepOf("none", 0, 0, 0, 0, RInt(0))
NoIter == [x |-> 0, y |-> 0, x_end |-> 0, y_end |-> 0]
NoPre == [energy |-> RInt(0), pool |-> RInt(0), count |-> 0]

\* ------------------------------------------------------------------ engine
Max(a, b) == IF a > b THEN a ELSE b
Min(a, b) == IF a < b THEN a ELSE b

RECURSIVE SumEnergies(_)
SumEnergies(ss) ==
    IF ss = <<>> THEN RInt(0)
    ELSE RAdd(SumEnergies(SubSeq(ss, 1, Len(ss) - 1)), ss[Len(ss)].energy)

RECURSIVE SumSlotEnergies(_, _)
SumSlotEnergies(b, n) ==
    IF n = 0 THEN RInt(0)
    ELSE RAdd(SumSlotEnergies(b, n - 1), SumEnergies(b[n - 1].specimens))

Slots(b) == Cardinality(DOMAIN b)

\* mutant: only the first slot is looked at
has_collisions_first(b) == b[0].tag = "Collision"

has_collisions(b) == \E i \in DOMAIN b : b[i].tag = "Collision"

\* mutant: the Collision cells are counted, not their contestants
count_collision_cells(b) ==
    Cardinality({i \in DOMAIN b : b[i].tag = "Collision"})

\* the folds below run over the slots 0 .. n-1 of a board, in slot order
CollisionLen(f) == IF f.tag = "Collision" THEN Len(f.specimens) ELSE 0

RECURSIVE CountCollisionsUpTo(_, _)
CountCollisionsUpTo(b, n) ==
    IF n = 0 THEN 0 ELSE CountCollisionsUpTo(b, n - 1) + CollisionLen(b[n - 1])

count_collisions(b) == CountCollisionsUpTo(b, Slots(b))

SpecimenLen(f) ==
    CASE f.tag = "Empty" -> 0
      [] f.tag = "Occupied" -> 1
      [] f.tag = "Collision" -> Len(f.specimens)

RECURSIVE CountSpecimensUpTo(_, _)
CountSpecimensUpTo(b, n) ==
    IF n = 0 THEN 0 ELSE CountSpecimensUpTo(b, n - 1) + SpecimenLen(b[n - 1])

count_specimens(b) == CountSpecimensUpTo(b, Slots(b))

total_energy(b) == SumSlotEnergies(b, Slots(b))

\* mutant: the struct update copies the energy, the loss is forgotten
lose_energy_kept(specimen, energy_loss_per_step) == specimen

\* update_specimen: the specimen after the loss of one step
lose_energy(specimen, energy_loss_per_step) ==
    Specimen(RSub(specimen.energy, energy_loss_per_step))

\* mutant: a specimen whose energy equals the margin dies as well
is_dead_at_margin(new_specimen, deadly_energy_margin) ==
    ~RLt(deadly_energy_margin, new_specimen.energy)

\* update_specimen: whether the specimen with the reduced energy dies
is_dead(new_specimen, deadly_energy_margin) ==
    RLt(new_specimen.energy, deadly_energy_margin)

\* print_stats: the panic it ends in on board b, or "none"
print_stats_fatal(b) ==
    IF \E i \in DOMAIN b : b[i].tag = "Collision"
    THEN "print_stats: should never happen"
    ELSE IF \A i \in DOMAIN b : b[i].tag # "Occupied"
    THEN "print_stats: index out of bounds"
    ELSE "none"

\* f32 division, by zero too: <<0, 0>> stands for NaN, <<1, 0>> and
\* <<-1, 0>> for the infinities
RDivOrNaN(a, b) ==
    IF b[1] # 0 THEN RDiv(a, b)
    ELSE IF a[1] = 0 THEN <<0, 0>>
    ELSE <<Sign(a[1]), 0>>

\* print_stats: the specimens of the first n slots, in slot order
RECURSIVE OccupiedUpTo(_, _)
OccupiedUpTo(b, n) ==
    IF n = 0 THEN <<>>
    ELSE IF b[n - 1].tag = "Occupied"
    THEN Append(OccupiedUpTo(b, n - 1), b[n - 1].specimens[1])
    ELSE OccupiedUpTo(b, n - 1)

\* print_stats: min_energy after the first k specimens
RECURSIVE MinEnergyUpTo(_, _)
MinEnergyUpTo(ss, k) ==
    IF k = 0 THEN ss[1].energy
    ELSE LET m == MinEnergyUpTo(ss, k - 1)
         IN  IF RLt(ss[k].energy, m) THEN ss[k].energy ELSE m

\* print_stats: max_energy after the first k specimens
RECURSIVE MaxEnergyUpTo(_, _)
MaxEnergyUpTo(ss, k) ==
    IF k = 0 THEN ss[1].energy
    ELSE LET m == MaxEnergyUpTo(ss, k - 1)
         IN  IF RLt(m, ss[k].energy) THEN ss[k].energy ELSE m

\* print_stats: sum_energy after the first k specimens
RECURSIVE SumEnergyUpTo(_, _)
SumEnergyUpTo(ss, k) ==
    IF k = 0 THEN RInt(0)
    ELSE RAdd(SumEnergyUpTo(ss, k - 1), ss[k].energy)

\* print_stats: the fold of diff * diff over the first k specimens
RECURSIVE SquaresUpTo(_, _, _)
SquaresUpTo(ss, avg_energy, k) ==
    IF k = 0 THEN RInt(0)
    ELSE LET diff == RSub(ss[k].energy, avg_energy)
         IN  RAdd(SquaresUpTo(ss, avg_energy, k - 1), RMul(diff, diff))

\* print_stats on a board with an Occupied cell and no Collision: what
\* println! is handed; stdev_energy is the square root of variance_energy
print_stats(iter, b) ==
    LET occupied == OccupiedUpTo(b, Slots(b))
        count == Len(occupied)
        avg_energy == RDiv(SumEnergyUpTo(occupied, count), RInt(count))
    IN  [iteration |-> iter,
         specimens |-> count,
         min_energy |-> MinEnergyUpTo(occupied, count),
         avg_energy |-> avg_energy,
         max_energy |-> MaxEnergyUpTo(occupied, count),
         variance_energy |->
            RDivOrNaN(SquaresUpTo(occupied, avg_energy, count), avg_energy)]

\* mutant: the destination is drawn from the whole board
get_new_coords_anywhere(x, y, w, h) == (0 .. (w - 1)) \X (0 .. (h - 1))

\* the results gen_range can give get_new_coords
get_new_coords(x, y, w, h) ==
    LET min_x == Max(0, x - 1)
        max_x == Min(x + 2, w)
        min_y == Max(0, y - 1)
        max_y == Min(y + 2, h)
    IN  (min_x .. (max_x - 1)) \X (min_y .. (max_y - 1))

\* mutant: a specimen arriving at an Occupied cell replaces its occupant
move_specimen_replacing(specimen, dst_x, dst_y, b, w) ==
    LET target_field == at(b, w, dst_x, dst_y)
    IN  CASE target_field.tag = "Empty" ->
               at_mut(b, w, dst_x, dst_y, Occupied(specimen))
          [] target_field.tag = "Occupied" ->
               at_mut(b, w, dst_x, dst_y, Collision(<<specimen>>))
          [] target_field.tag = "Collision" ->
               at_mut(b, w, dst_x, dst_y,
                      Collision(Append(target_field.specimens, specimen)))

\* mutant: the newcomer goes to the front of the contestants
move_specimen_prepending(specimen, dst_x, dst_y, b, w) ==
    LET target_field == at(b, w, dst_x, dst_y)
    IN  CASE target_field.tag = "Empty" ->
               at_mut(b, w, dst_x, dst_y, Occupied(specimen))
          [] target_field.tag = "Occupied" ->
               at_mut(b, w, dst_x, dst_y,
                      Collision(<<specimen, target_field.specimens[1]>>))
          [] target_field.tag = "Collision" ->
               at_mut(b, w, dst_x, dst_y,
                      Collision(<<specimen>> \o target_field.specimens))

move_specimen(specimen, dst_x, dst_y, b, w) ==
    LET target_field == at(b, w, dst_x, dst_y)
    IN  CASE target_field.tag = "Empty" ->
               at_mut(b, w, dst_x, dst_y, Occupied(specimen))
          [] target_field.tag = "Occupied" ->
               at_mut(b, w, dst_x, dst_y,
                      Collision(<<target_field.specimens[1], specimen>>))
          [] target_field.tag = "Collision" ->
               at_mut(b, w, dst_x, dst_y,
                      Collision(Append(target_field.specimens, specimen)))

\* mutant: the column to the right is left out
surrounding_fields_narrow(x, y, w, h) ==
    LET min_x == Max(0, x - 1)
        max_x == Min(x + 1, w)
        min_y == Max(0, y - 1)
        max_y == Min(y + 2, h)
        ny == max_y - min_y
    IN  [k \in 1 .. ((max_x - min_x) * ny) |->
            <<min_x + ((k - 1) \div ny), min_y + ((k - 1) % ny)>>]

\* the candidate coordinates, x in the outer loop and y in the inner one
surrounding_fields(x, y, w, h) ==
    LET min_x == Max(0, x - 1)
        max_x == Min(x + 2, w)
        min_y == Max(0, y - 1)
        max_y == Min(y + 2, h)
        ny == max_y - min_y
    IN  [k \in 1 .. ((max_x - min_x) * ny) |->
            <<min_x + ((k - 1) \div ny), min_y + ((k - 1) % ny)>>]

\* mutant: the candidates are drawn with repetition
assign_neighbors_repeating(x, y, num_elems, w, h) ==
    LET fields == surrounding_fields(x, y, w, h)
    IN  {[i \in 1 .. num_elems |-> fields[p[i]]] :
            p \in [1 .. num_elems -> 1 .. Len(fields)]}

\* the first num_elems entries of every shuffle of the candidates
assign_neighbors(x, y, num_elems, w, h) ==
    LET fields == surrounding_fields(x, y, w, h)
        picks == {p \in [1 .. num_elems -> 1 .. Len(fields)] :
                     \A i, j \in 1 .. num_elems : i # j => p[i] # p[j]}
    IN  {[i \in 1 .. num_elems |-> fields[p[i]]] : p \in picks}

\* sort_by(partial_cmp) is a stable sort: ss[i] goes after the specimens of
\* less energy and after the equal ones that precede it in ss
SortedPlace(ss, i) ==
    1 + Cardinality({j \in 1 .. Len(ss) :
                        \/ RLt(ss[j].energy, ss[i].energy)
                        \/ (j < i /\ ~RLt(ss[i].energy, ss[j].energy))})

SortByEnergy(ss) ==
    [k \in 1 .. Len(ss) |->
        ss[CHOOSE i \in 1 .. Len(ss) : SortedPlace(ss, i) = k]]

split_energy_weak_takes_all(ss, available_energy) ==
    LET sorted == SortByEnergy(ss)
    IN  IF sorted = <<>> THEN sorted
        ELSE [sorted EXCEPT ![1] =
                 Specimen(RAdd(sorted[1].energy, available_energy))]

\* mutant: the splitter that gives the entitlement to the strongest
split_energy_to_strongest(ss, available_energy) ==
    LET sorted == SortByEnergy(ss)
    IN  IF sorted = <<>> THEN sorted
        ELSE [sorted EXCEPT ![Len(sorted)] =
                 Specimen(RAdd(sorted[Len(sorted)].energy, available_energy))]

split_energy(ss, available_energy) ==
    split_energy_weak_takes_all(ss, available_energy)

\* the zip loop of resolve_collisions: one move_specimen per contestant
RECURSIVE PlaceAll(_, _, _, _)
PlaceAll(positions, ss, b, w) ==
    IF positions = <<>> \/ ss = <<>> THEN b
    ELSE PlaceAll(Tail(positions), Tail(ss),
                  move_specimen(Head(ss), Head(positions)[1],
                                Head(positions)[2], b, w), w)

\* ------------------------------------------------------------ construction
InitialEnergies == {RInt(2)}
LossesPerStep == {RInt(0), RInt(1)}
DeadlyMargins == {RInt(0), RInt(1)}

Configs ==
    [num_specimens : 0 .. MaxSpecimens,
     initial_specimen_energy : InitialEnergies,
     energy_loss_per_step : LossesPerStep,
     deadly_energy_margin : DeadlyMargins]

\* the program before GoodEvil::new runs on (width, height, cfg)
Start(w, h, c) ==
    /\ width = w
    /\ height = h
    /\ cfg = c
    /\ board = BoardNew(w, h, Empty)
    /\ collision_energy = RInt(0)
    /\ iteration = 0
    /\ pc = "new"
    /\ fatal = "none"
    /\ new = BoardNew(w, h, Empty)
    /\ it = NoIter
    /\ placed = 0
    /\ probes = 0
    /\ specimens = 0
    /\ energy_gain = RInt(0)
    /\ coll_iters = 0
    /\ step = NoStep
    /\ pre = NoPre
    /\ out = <<>>
    /\ args = <<>>

Init ==
    \E w \in 1 .. MaxWidth, h \in 1 .. MaxHeight, c \in Configs : Start(w, h, c)

\* a panic: the program stops where it is
Panic(msg) ==
    /\ pc' = "panic"
    /\ fatal' = msg
    /\ UNCHANGED <<cfg, args, out, width, height, board, collision_energy, iteration,
                   new, it, placed, probes, specimens, energy_gain,
                   coll_iters, step, pre>>

\* mutant: new() without the assertion on num_specimens
NewUnchecked ==
    /\ pc = "new"
    /\ IF width < 2 THEN Panic("assertion failed: width >= 2")
       ELSE IF height < 2 THEN Panic("assertion failed: height >= 2")
       ELSE /\ board' = BoardNew(width, height, Empty)
            /\ pc' = IF cfg.num_specimens = 0 THEN "idle" ELSE "seed"
            /\ fatal' = "none"
            /\ UNCHANGED <<cfg, args, out, width, height, collision_energy, iteration,
                           new, it, placed, probes, specimens, energy_gain,
                           coll_iters, step, pre>>

\* GoodEvil::new up to its seeding loop
New ==
    /\ pc = "new"
    /\ IF width < 2 THEN Panic("assertion failed: width >= 2")
       ELSE IF height < 2 THEN Panic("assertion failed: height >= 2")
       ELSE IF cfg.num_specimens > width * height
       THEN Panic("assertion failed: cfg.num_specimens <= width * height")
       ELSE /\ board' = BoardNew(width, height, Empty)
            /\ pc' = IF cfg.num_specimens = 0 THEN "idle" ELSE "seed"
            /\ fatal' = "none"
            /\ UNCHANGED <<cfg, args, out, width, height, collision_energy, iteration,
                           new, it, placed, probes, specimens, energy_gain,
                           coll_iters, step, pre>>

\* mutant: the first probe is taken, whatever the cell holds
find_empty_field_any ==
    /\ pc = "seed"
    /\ \E x \in 0 .. (width - 1), y \in 0 .. (height - 1) :
          /\ board' = at_mut(board, width, x, y,
                             Occupied(Specimen(cfg.initial_specimen_energy)))
          /\ placed' = placed + 1
          /\ probes' = 0
          /\ pc' = IF placed + 1 = cfg.num_specimens THEN "idle" ELSE "seed"
          /\ step' = StepOf("seeded", x, y, x, y, cfg.initial_specimen_energy)
          /\ UNCHANGED <<cfg, args, out, width, height, collision_energy, iteration,
                         fatal, new, it, specimens, energy_gain,
                         coll_iters, pre>>

\* one probe of find_empty_field; a hit seeds the specimen in new()
find_empty_field ==
    /\ pc = "seed"
    /\ \E x \in 0 .. (width - 1), y \in 0 .. (height - 1) :
          IF at(board, width, x, y) = Empty
          THEN /\ board' = at_mut(board, width, x, y,
                              Occupied(Specimen(cfg.initial_specimen_energy)))
               /\ placed' = placed + 1
               /\ probes' = 0
               /\ pc' = IF placed + 1 = cfg.num_specimens THEN "idle" ELSE "seed"
               /\ step' = StepOf("seeded", x, y, x, y, cfg.initial_specimen_energy)
               /\ UNCHANGED <<cfg, args, out, width, height, collision_energy, iteration,
                              fatal, new, it, specimens, energy_gain,
                              coll_iters, pre>>
          ELSE IF probes + 1 = width * height
          THEN Panic("could not find an empty field")
          ELSE /\ probes' = probes + 1
               /\ step' = StepOf("probed", x, y, x, y, RInt(0))
               /\ UNCHANGED <<cfg, args, out, width, height, board, collision_energy,
                              iteration, pc, fatal, new, it, placed,
                              specimens, energy_gain, coll_iters, pre>>

\* ----------------------------------------------------------------- advance
\* advance() entered: the new board of the movement phase and its scan
AdvanceBegin(cap) ==
    /\ pc = "idle"
    /\ iteration < cap
    /\ new' = BoardNew(width, height, Empty)
    /\ it' = indices_2d(width, height)
    /\ pc' = "move"
    /\ coll_iters' = 0
    /\ step' = NoStep
    /\ pre' = [energy |-> total_energy(board), pool |-> collision_energy,
               count |-> count_specimens(board)]
    /\ UNCHANGED <<cfg, args, out, width, height, board, collision_energy, iteration,
                   fatal, placed, probes, specimens, energy_gain>>

\* the movement scan moves on; after the last cell the new board replaces
\* the old one and the specimens are counted
MoveOn(nb, pool, st) ==
    /\ new' = nb
    /\ collision_energy' = pool
    /\ step' = st
    /\ it' = IterNext(it)
    /\ IF IterHasNext(IterNext(it))
       THEN UNCHANGED <<board, specimens, pc>>
       ELSE /\ board' = nb
            /\ specimens' = count_specimens(nb)
            /\ pc' = "loop"
    /\ UNCHANGED <<cfg, args, out, width, height, iteration, fatal, placed, probes,
                   energy_gain, coll_iters, pre>>

\* update_specimen(x, y, new) for the cell the scan is at
update_specimen ==
    /\ pc = "move"
    /\ IterHasNext(it)
    /\ LET x == it.x
           y == it.y
           f == at(board, width, x, y)
       IN  CASE f.tag = "Empty" ->
                  MoveOn(new, collision_energy,
                         StepOf("empty", x, y, x, y, RInt(0)))
             [] f.tag = "Occupied" ->
                  LET specimen == f.specimens[1]
                      pool == RAdd(collision_energy, cfg.energy_loss_per_step)
                      new_specimen ==
                          lose_energy(specimen, cfg.energy_loss_per_step)
                  IN  IF is_dead(new_specimen, cfg.deadly_energy_margin)
                      THEN MoveOn(new, RAdd(pool, new_specimen.energy),
                                  StepOf("died", x, y, x, y,
                                         new_specimen.energy))
                      ELSE \E t \in get_new_coords(x, y, width, height) :
                              MoveOn(move_specimen(new_specimen, t[1], t[2],
                                                   new, width),
                                     pool,
                                     StepOf("moved", x, y, t[1], t[2],
                                            new_specimen.energy))
             [] f.tag = "Collision" ->
                  Panic("update_specimen: should never happen")

\* the head of the resolution loop with a Collision on the board: the
\* assertion, then resolve_collisions up to its scan
ResolveBegin ==
    /\ pc = "loop"
    /\ has_collisions(board)
    /\ IF count_specimens(board) >= specimens
       THEN /\ new' = BoardNew(width, height, Empty)
            /\ energy_gain' =
                   RDiv(collision_energy, RInt(count_collisions(board)))
            /\ it' = indices_2d(width, height)
            /\ pc' = "resolve"
            /\ step' = NoStep
            /\ UNCHANGED <<cfg, args, out, width, height, board, collision_energy,
                           iteration, fatal, placed, probes, specimens,
                           coll_iters, pre>>
       ELSE Panic("assertion failed: count_specimens >= specimens")

\* mutant: the pass ends without clearing the pool
ResolveOnKeepingPool(nb, st) ==
    /\ new' = nb
    /\ step' = st
    /\ it' = IterNext(it)
    /\ IF IterHasNext(IterNext(it))
       THEN UNCHANGED <<board, coll_iters, pc>>
       ELSE /\ board' = nb
            /\ coll_iters' = Min(coll_iters + 1, MaxPasses)
            /\ pc' = "loop"
    /\ UNCHANGED <<cfg, args, out, width, height, collision_energy, iteration, fatal,
                   placed, probes, specimens, energy_gain, pre>>

\* the resolution scan moves on; after the last cell the pass is over: the
\* new board replaces the old one and the pool is cleared
ResolveOn(nb, st) ==
    /\ new' = nb
    /\ step' = st
    /\ it' = IterNext(it)
    /\ IF IterHasNext(IterNext(it))
       THEN UNCHANGED <<board, collision_energy, coll_iters, pc>>
       ELSE /\ board' = nb
            /\ collision_energy' = RInt(0)
            /\ coll_iters' = Min(coll_iters + 1, MaxPasses)
            /\ pc' = "loop"
    /\ UNCHANGED <<cfg, args, out, width, height, iteration, fatal, placed, probes,
                   specimens, energy_gain, pre>>

\* the body of the scan of resolve_collisions for the cell the scan is at
resolve_collisions ==
    /\ pc = "resolve"
    /\ IterHasNext(it)
    /\ LET x == it.x
           y == it.y
           f == at(board, width, x, y)
       IN  CASE f.tag = "Empty" ->
                  ResolveOn(new, StepOf("empty", x, y, x, y, RInt(0)))
             [] f.tag = "Occupied" ->
                  ResolveOn(move_specimen(f.specimens[1], x, y, new, width),
                            StepOf("kept", x, y, x, y, f.specimens[1].energy))
             [] f.tag = "Collision" ->
                  LET available ==
                          RMul(RInt(Len(f.specimens)), energy_gain)
                  IN  \E new_specs \in
                             {split_energy(f.specimens, available)} :
                      IF Len(new_specs)
                            <= Len(surrounding_fields(x, y, width, height))
                      THEN \E positions \in
                                 assign_neighbors(x, y, Len(new_specs),
                                                  width, height) :
                              ResolveOn(PlaceAll(positions, new_specs,
                                                 new, width),
                                        StepOf("split", x, y, x, y, available))
                      ELSE Panic("assertion failed: num_elems <= fields.len()")

\* mutant: the end of advance() without the extinction check
AdvanceEndSilent ==
    /\ pc = "loop"
    /\ ~has_collisions(board)
    /\ iteration' = iteration + 1
    /\ pc' = "idle"
    /\ UNCHANGED <<cfg, args, out, width, height, board, collision_energy, fatal,
                   new, it, placed, probes, specimens, energy_gain,
                   coll_iters, step, pre>>

\* the end of advance(): the loop is left, extinction is checked, the
\* generation is counted and the statistics are printed
AdvanceEnd ==
    /\ pc = "loop"
    /\ ~has_collisions(board)
    /\ IF specimens = 0
       THEN Panic("all specimens died")
       ELSE /\ iteration' = iteration + 1
            /\ pc' = IF print_stats_fatal(board) = "none" THEN "idle" ELSE "panic"
            /\ fatal' = print_stats_fatal(board)
            /\ out' = IF print_stats_fatal(board) = "none"
                      THEN print_stats(iteration + 1, board)
                      ELSE out
            /\ UNCHANGED <<cfg, args, width, height, board, collision_energy,
                           new, it, placed, probes, specimens, energy_gain,
                           coll_iters, step, pre>>

\* ------------------------------------------------------------- board calls
\* a caller of the Board API: reads, writes and iterations on a Board<usize>
\* Board::at with any coordinates: the slice index panics past the end
BoardAt ==
    /\ pc = "board"
    /\ \E x \in 0 .. MaxCoord, y \in 0 .. MaxCoord :
          IF Slot(width, x, y) \in DOMAIN board
          THEN /\ out' = <<at(board, width, x, y)>>
               /\ step' = StepOf("at", x, y, x, y, RInt(0))
               /\ UNCHANGED <<cfg, args, width, height, board, collision_energy,
                              iteration, pc, fatal, new, it, placed, probes,
                              specimens, energy_gain, coll_iters, pre>>
          ELSE Panic("index out of bounds")

\* *Board::at_mut(x, y) = v with any coordinates
BoardAtMut ==
    /\ pc = "board"
    /\ \E x \in 0 .. MaxCoord, y \in 0 .. MaxCoord, v \in 0 .. MaxValue :
          IF Slot(width, x, y) \in DOMAIN board
          THEN /\ board' = at_mut(board, width, x, y, v)
               /\ out' = <<v>>
               /\ step' = StepOf("at_mut", x, y, x, y, RInt(0))
               /\ UNCHANGED <<cfg, args, width, height, collision_energy,
                              iteration, pc, fatal, new, it, placed, probes,
                              specimens, energy_gain, coll_iters, pre>>
          ELSE Panic("index out of bounds")

\* Board::indices: a scan of the board begins
IndicesBegin ==
    /\ pc = "board"
    /\ it' = indices_2d(width, height)
    /\ out' = <<>>
    /\ pc' = "indices"
    /\ step' = StepOf("indices", 0, 0, 0, 0, RInt(0))
    /\ UNCHANGED <<cfg, args, width, height, board, collision_energy, iteration,
                   fatal, new, placed, probes, specimens, energy_gain,
                   coll_iters, pre>>

\* Indices2D::next: an item, or None, which ends the caller's loop
IndicesNext ==
    /\ pc = "indices"
    /\ IF it.y > it.y_end
       THEN Panic("assertion failed: self.y <= self.y_end")
       ELSE IF IterHasNext(it)
       THEN /\ out' = Append(out, <<it.x, it.y>>)
            /\ it' = IterNext(it)
            /\ step' = StepOf("item", it.x, it.y, it.x, it.y, RInt(0))
            /\ UNCHANGED <<cfg, args, width, height, board, collision_energy,
                           iteration, pc, fatal, new, placed, probes,
                           specimens, energy_gain, coll_iters, pre>>
       ELSE /\ pc' = "board"
            /\ step' = StepOf("indices_end", 0, 0, 0, 0, RInt(0))
            /\ UNCHANGED <<cfg, args, out, width, height, board, collision_energy,
                           iteration, fatal, new, it, placed, probes,
                           specimens, energy_gain, coll_iters, pre>>

\* torus_neighbors(x, y, x_end, y_end) is called
TorusBegin ==
    /\ pc = "board"
    /\ \E x_end \in 1 .. MaxTorus, y_end \in 1 .. MaxTorus :
       \E x \in 0 .. x_end, y \in 0 .. y_end :
          /\ it' = torus_neighbors(x, y, x_end, y_end)
          /\ out' = <<>>
          /\ pc' = "torus"
          /\ step' = StepOf("torus", x, y, x, y, RInt(0))
          /\ UNCHANGED <<cfg, args, width, height, board, collision_energy,
                         iteration, fatal, new, placed, probes, specimens,
                         energy_gain, coll_iters, pre>>

\* TorusNeighbors::next: an item, or None, which ends the caller's loop
TorusNext ==
    /\ pc = "torus"
    /\ IF it.idx = 9
       THEN /\ pc' = "board"
            /\ step' = StepOf("torus_end", it.x, it.y, it.x, it.y, RInt(0))
            /\ UNCHANGED <<cfg, args, out, width, height, board, collision_energy,
                           iteration, fatal, new, it, placed, probes,
                           specimens, energy_gain, coll_iters, pre>>
       ELSE IF \/ torus_sub_1_fails(it.x + (it.idx % 3), it.x_end)
               \/ torus_sub_1_fails(it.y + (it.idx \div 3), it.y_end)
       THEN Panic("assertion failed: idx == idx_end + 1")
       ELSE LET x == torus_sub_1(it.x + (it.idx % 3), it.x_end)
                y == torus_sub_1(it.y + (it.idx \div 3), it.y_end)
            IN  /\ out' = Append(out, <<x, y>>)
                /\ it' = [it EXCEPT !.idx = TorusIdxNext(it.idx)]
                /\ step' = StepOf("neighbor", it.x, it.y, x, y, RInt(0))
                /\ UNCHANGED <<cfg, args, width, height, board, collision_energy,
                               iteration, pc, fatal, new, placed, probes,
                               specimens, energy_gain, coll_iters, pre>>

\* ------------------------------------------------------------ Game of Life
\* count_alive_neighbors: the loop over the items torus_neighbors yields
\* from idx on; around a cell of the board torus_sub_1 gets at most
\* idx_end + 1 and its assertion holds
RECURSIVE CountAliveFrom(_, _, _, _, _, _)
CountAliveFrom(b, w, h, x, y, idx) ==
    IF idx = 9 THEN 0
    ELSE LET nbr_x == torus_sub_1(x + (idx % 3), w)
             nbr_y == torus_sub_1(y + (idx \div 3), h)
         IN  (IF at(b, w, nbr_x, nbr_y) THEN 1 ELSE 0)
                + CountAliveFrom(b, w, h, x, y, TorusIdxNext(idx))

count_alive_neighbors(b, w, h, x, y) == CountAliveFrom(b, w, h, x, y, 0)

\* advance_board: the value written for a cell
is_alive_next(is_alive, nbrs_alive) ==
    \/ (~is_alive /\ nbrs_alive = 3)
    \/ (is_alive /\ (nbrs_alive = 2 \/ nbrs_alive = 3))

\* GameOfLife::advance entered: advance_board(old) up to its scan
LifeBegin ==
    /\ pc = "life"
    /\ args' = [old |-> board]
    /\ new' = BoardNew(width, height, FALSE)
    /\ it' = indices_2d(width, height)
    /\ pc' = "life_scan"
    /\ step' = NoStep
    /\ UNCHANGED <<cfg, out, width, height, board, collision_energy,
                   iteration, fatal, placed, probes, specimens, energy_gain,
                   coll_iters, pre>>

\* the scan of advance_board moves on; after the last cell the new board
\* is returned and GameOfLife::advance stores it
LifeOn(nb) ==
    /\ new' = nb
    /\ it' = IterNext(it)
    /\ IF IterHasNext(IterNext(it))
       THEN /\ step' = StepOf("life_cell", it.x, it.y, it.x, it.y, RInt(0))
            /\ UNCHANGED <<board, out, pc>>
       ELSE /\ step' = StepOf("life_end", it.x, it.y, it.x, it.y, RInt(0))
            /\ board' = nb
            /\ out' = <<nb>>
            /\ pc' = "life"
    /\ UNCHANGED <<cfg, args, width, height, collision_energy, iteration,
                   fatal, placed, probes, specimens, energy_gain,
                   coll_iters, pre>>

\* mutant: the neighbors are counted on the board being written
LifeCell_counting_in_new ==
    /\ pc = "life_scan"
    /\ IterHasNext(it)
    /\ LET is_alive == at(args.old, width, it.x, it.y)
           nbrs_alive == count_alive_neighbors(new, width, height, it.x, it.y)
       IN  LifeOn(at_mut(new, width, it.x, it.y,
                         is_alive_next(is_alive, nbrs_alive)))

\* the body of the scan of advance_board for the cell the scan is at
LifeCell ==
    /\ pc = "life_scan"
    /\ IterHasNext(it)
    /\ LET is_alive == at(args.old, width, it.x, it.y)
           nbrs_alive ==
               count_alive_neighbors(args.old, width, height, it.x, it.y)
       IN  LifeOn(at_mut(new, width, it.x, it.y,
                         is_alive_next(is_alive, nbrs_alive)))

\* ------------------------------------------------------------- split calls
\* split_energy(specimens, available_energy) is called and returns
SplitEnergy ==
    /\ pc = "split"
    /\ out' = split_energy(args.specimens, args.available_energy)
    /\ pc' = "split_done"
    /\ step' = StepOf("split_energy", 0, 0, 0, 0, args.available_energy)
    /\ UNCHANGED <<cfg, args, width, height, board, collision_energy,
                   iteration, fatal, new, it, placed, probes, specimens,
                   energy_gain, coll_iters, pre>>

Next ==
    \/ New
    \/ find_empty_field
    \/ AdvanceBegin(MaxGen)
    \/ update_specimen
    \/ ResolveBegin
    \/ resolve_collisions
    \/ AdvanceEnd

Spec == Init /\ [][Next]_vars

\* the engine with at most MaxPair specimens
InitPair ==
    \E w \in 1 .. MaxWidth, h \in 1 .. MaxHeight, c \in Configs :
       c.num_specimens <= MaxPair /\ Start(w, h, c)

SpecPair == InitPair /\ [][Next]_vars

\* the engine with two to MaxLoopSpecimens specimens that lose no energy,
\* which keeps running: advance() is a sequential program, a step that can
\* be taken is taken
InitLoop ==
    \E w \in 2 .. MaxWidth, h \in 2 .. MaxHeight, c \in Configs :
       /\ c.num_specimens \in 2 .. MaxLoopSpecimens
       /\ c.energy_loss_per_step = RInt(0)
       /\ c.deadly_energy_margin = RInt(0)
       /\ Start(w, h, c)

SpecLoop ==
    InitLoop /\ [][Next]_vars
        /\ WF_vars(ResolveBegin) /\ WF_vars(resolve_collisions)

\* the end-to-end scenario: one specimen of energy 1.0 on the 2x2 board,
\* losing 0.1 per step, dying below 0.0
ScenarioConfig ==
    [num_specimens |-> 1,
     initial_specimen_energy |-> RInt(1),
     energy_loss_per_step |-> F32Round(1, 10),
     deadly_energy_margin |-> RInt(0)]

InitScenario == Start(2, 2, ScenarioConfig)

NextScenario ==
    \/ New
    \/ find_empty_field
    \/ AdvanceBegin(MaxGenScenario)
    \/ update_specimen
    \/ AdvanceEnd

SpecScenario == InitScenario /\ [][NextScenario]_vars

\* the engine on the widest board with DenseSpecimens specimens, more than
\* a corner's neighborhood has cells, which lose no energy
DenseConfig ==
    [num_specimens |-> DenseSpecimens,
     initial_specimen_energy |-> RInt(2),
     energy_loss_per_step |-> RInt(0),
     deadly_energy_margin |-> RInt(0)]

InitDense == Start(MaxWidth, MaxHeight, DenseConfig)

SpecDense == InitDense /\ [][Next]_vars

\* construction alone, with up to MaxNewSpecimens specimens asked for: more
\* than the 2x2 board holds
InitNew ==
    \E w \in 1 .. MaxWidth, h \in 1 .. MaxHeight,
       n \in 0 .. MaxNewSpecimens, l \in LossesPerStep, m \in DeadlyMargins :
       Start(w, h, [num_specimens |-> n,
                    initial_specimen_energy |-> RInt(2),
                    energy_loss_per_step |-> l,
                    deadly_energy_margin |-> m])

NextNew == New \/ find_empty_field

SpecNew == InitNew /\ [][NextNew]_vars

\* the full 2x2 board with a loss of 0.1 per step: pools that are no
\* dyadic fractions
PoolConfig ==
    [num_specimens |-> PoolSpecimens,
     initial_specimen_energy |-> RInt(1),
     energy_loss_per_step |-> F32Round(1, 10),
     deadly_energy_margin |-> RInt(0)]

InitPool == Start(2, 2, PoolConfig)

\* the first advance() up to the exit of its resolution loop: the squares
\* print_stats would take of these energies are beyond the numbers modelled
NextPool ==
    \/ New
    \/ find_empty_field
    \/ AdvanceBegin(MaxGen)
    \/ update_specimen
    \/ ResolveBegin
    \/ resolve_collisions

SpecPool == InitPool /\ [][NextPool]_vars

\* a Board<usize> of zeros and its caller
InitBoard ==
    \E w \in 1 .. MaxWidth, h \in 1 .. MaxHeight :
       /\ width = w
       /\ height = h
       /\ board = BoardNew(w, h, 0)
       /\ pc = "board"
       /\ cfg = DenseConfig
       /\ collision_energy = RInt(0)
       /\ iteration = 0
       /\ fatal = "none"
       /\ new = BoardNew(w, h, 0)
       /\ it = NoIter
       /\ placed = 0
       /\ probes = 0
       /\ specimens = 0
       /\ energy_gain = RInt(0)
       /\ coll_iters = 0
       /\ step = NoStep
       /\ pre = NoPre
       /\ out = <<>>
       /\ args = <<>>

NextBoard ==
    \/ BoardAt
    \/ BoardAtMut
    \/ IndicesBegin
    \/ IndicesNext
    \/ TorusBegin
    \/ TorusNext

SpecBoard == InitBoard /\ [][NextBoard]_vars

\* the energies and entitlements split_energy is called with: 0.9 and 0.7
\* are what 1.0 is after one and three losses of 0.1, 0.2 and 0.4 are pools
\* of 0.1 per specimen
SplitEnergies == {RInt(-1), RInt(0), F32Round(7, 10), F32Round(9, 10), RInt(2)}
SplitEntitlements == {RInt(0), RInt(1), F32Round(1, 5), F32Round(2, 5)}

ContestantLists ==
    UNION {[1 .. n -> {Specimen(e) : e \in SplitEnergies}] :
              n \in 0 .. MaxContestants}

\* a caller of split_energy with any list of up to MaxContestants specimens
InitSplit ==
    \E ss \in ContestantLists, e \in SplitEntitlements :
       /\ width = 2
       /\ height = 2
       /\ board = BoardNew(2, 2, Empty)
       /\ pc = "split"
       /\ cfg = DenseConfig
       /\ collision_energy = RInt(0)
       /\ iteration = 0
       /\ fatal = "none"
       /\ new = BoardNew(2, 2, Empty)
       /\ it = NoIter
       /\ placed = 0
       /\ probes = 0
       /\ specimens = 0
       /\ energy_gain = RInt(0)
       /\ coll_iters = 0
       /\ step = NoStep
       /\ pre = NoPre
       /\ out = <<>>
       /\ args = [specimens |-> ss, available_energy |-> e]

NextSplit == SplitEnergy

SpecSplit == InitSplit /\ [][NextSplit]_vars

\* a GameOfLife on any boolean board of up to MaxLife x MaxLife cells
InitLife ==
    \E w \in 1 .. MaxLife, h \in 1 .. MaxLife :
    \E b \in [0 .. (w * h - 1) -> BOOLEAN] :
       /\ width = w
       /\ height = h
       /\ board = b
       /\ pc = "life"
       /\ cfg = DenseConfig
       /\ collision_energy = RInt(0)
       /\ iteration = 0
       /\ fatal = "none"
       /\ new = BoardNew(w, h, FALSE)
       /\ it = NoIter
       /\ placed = 0
       /\ probes = 0
       /\ specimens = 0
       /\ energy_gain = RInt(0)
       /\ coll_iters = 0
       /\ step = NoStep
       /\ pre = NoPre
       /\ out = <<>>
       /\ args = [old |-> b]

NextLife == LifeBegin \/ LifeCell

SpecLife == InitLife /\ [][NextLife]_vars

\* ------------------------------------------------------------------ claims
\* what the claims measure, written apart from the engine's own helpers
HoldsCollision(b) == \E i \in DOMAIN b : b[i].tag = "Collision"

RECURSIVE PopulationUpTo(_, _)
PopulationUpTo(b, n) ==
    IF n = 0 THEN 0 ELSE PopulationUpTo(b, n - 1) + Len(b[n - 1].specimens)
Population(b) == PopulationUpTo(b, Cardinality(DOMAIN b))

Returned == pc = "idle" /\ iteration >= 1

\* C1: no cell of the engine's grid is Collision after new() returns nor
\* when advance() returns, so the movement phase reads only Empty and
\* Occupied cells and neither "should never happen" panic is reached.
C1_NoCollisionBetweenGenerations ==
    /\ pc \in {"idle", "move"} => ~HoldsCollision(board)
    /\ fatal \notin {"update_specimen: should never happen",
                     "print_stats: should never happen"}

\* an advance() that resolved collisions has returned
C1_Witness ==
    /\ pc = "idle"
    /\ iteration >= 1
    /\ coll_iters >= 1
    /\ \E i \in DOMAIN board : board[i].tag = "Occupied"

\* C3: the specimen count of the grid never decreases from one resolution
\* pass to the next, and the assertion before each pass never fails.
C3_CountNeverDecreases ==
    /\ [][(pc = "resolve" /\ pc' = "loop")
             => Population(board') >= Population(board)]_vars
    /\ [](pc \in {"loop", "resolve"} => Population(board) >= specimens)
    /\ [](fatal # "assertion failed: count_specimens >= specimens")

\* a second pass is about to run: the assertion is evaluated after a pass
C3_Witness ==
    /\ pc = "loop"
    /\ coll_iters >= 1
    /\ HoldsCollision(board)
    /\ Population(board) >= 3

\* C5: zero specimens after the movement phase end advance() in the
\* "all specimens died" panic with the generation counter untouched, and
\* advance() never returns with a grid that holds no specimen.
C5_ExtinctionIsFatal ==
    /\ [][(pc = "loop" /\ Population(board) = 0)
             => (pc' = "panic" /\ fatal' = "all specimens died"
                 /\ iteration' = iteration /\ board' = board)]_vars
    /\ [](Returned => Population(board) >= 1)
    /\ [](fatal = "all specimens died" => Population(board) = 0)

\* the last specimens died in the movement phase and advance() panicked
C5_Witness ==
    /\ fatal = "all specimens died"
    /\ pre.count >= 2
    /\ iteration >= 1

\* the cell the running scan is at, and the energy its occupant is left with
ScanSlot == it.y * width + it.x
ScanCell == board[ScanSlot]
ReducedEnergy(f) == RSub(f.specimens[1].energy, cfg.energy_loss_per_step)
Survives(f) ==
    f.tag = "Occupied" /\ ~RLt(ReducedEnergy(f), cfg.deadly_energy_margin)

\* C6: the movement phase handles each Occupied cell exactly once: the loss
\* goes to the pool and off the specimen; below the margin the specimen is
\* placed nowhere and its remaining energy goes to the pool as well; at or
\* above the margin it is placed once with exactly the reduced energy.
C6_MovementStep ==
    /\ [][pc = "move" =>
            IF ScanCell.tag = "Occupied"
            THEN IF RLt(ReducedEnergy(ScanCell), cfg.deadly_energy_margin)
                 THEN /\ new' = new
                      /\ collision_energy' =
                            RAdd(RAdd(collision_energy,
                                      cfg.energy_loss_per_step),
                                 ReducedEnergy(ScanCell))
                 ELSE /\ collision_energy' =
                            RAdd(collision_energy, cfg.energy_loss_per_step)
                      /\ \E c \in DOMAIN new :
                            /\ new'[c].specimens =
                                  Append(new[c].specimens,
                                         [energy |-> ReducedEnergy(ScanCell)])
                            /\ \A d \in DOMAIN new \ {c} : new'[d] = new[d]
            ELSE new' = new /\ collision_energy' = collision_energy]_vars
    /\ [](pc = "move" =>
            Population(new) =
               Cardinality({i \in 0 .. (ScanSlot - 1) : Survives(board[i])}))
    /\ [][pc = "move" => it' # it /\ (pc' = "move" => ScanSlot' = ScanSlot + 1)]_vars

\* a specimen left with exactly the margin was placed next to another one
C6_Witness ==
    /\ pc = "move"
    /\ step.kind = "moved"
    /\ step.energy = cfg.deadly_energy_margin
    /\ cfg.energy_loss_per_step # RInt(0)
    /\ Population(new) >= 2

Near(x, y, tx, ty) ==
    /\ tx - x \in {-1, 0, 1}
    /\ ty - y \in {-1, 0, 1}
    /\ 0 <= tx /\ tx < width
    /\ 0 <= ty /\ ty < height

\* C7: a surviving specimen at (x, y) is placed at most one cell away on
\* either axis and inside the board, never wrapped, and every such cell,
\* (x, y) included, can be its destination.
C7_MovementStaysNear ==
    /\ [][(pc = "move" /\ pc' # "panic") =>
            \A c \in DOMAIN new :
               new'[c] # new[c] => Near(it.x, it.y, c % width, c \div width)]_vars
    /\ [](pc = "move" /\ Survives(ScanCell) =>
            \A tx \in 0 .. (width - 1), ty \in 0 .. (height - 1) :
               Near(it.x, it.y, tx, ty) =>
                  ENABLED (update_specimen
                           /\ new'[ty * width + tx] # new[ty * width + tx]))

\* on the three-wide board a specimen of the last column moved diagonally
C7_Witness ==
    /\ step.kind = "moved"
    /\ pc = "move"
    /\ width = 3
    /\ step.x = 2
    /\ step.tx = 1
    /\ step.ty # step.y

NeighborhoodSize(x, y) ==
    Cardinality({t \in (0 .. (width - 1)) \X (0 .. (height - 1)) :
                    Near(x, y, t[1], t[2])})

\* C8: a Collision cell never holds more contestants than its clamped 3x3
\* neighborhood has cells, so the assertion of assign_neighbors never fails.
C8_ContestantsFit ==
    /\ \A b \in {board, new} :
          \A i \in DOMAIN b :
             b[i].tag = "Collision" =>
                Len(b[i].specimens)
                   <= NeighborhoodSize(i % width, i \div width)
    /\ fatal # "assertion failed: num_elems <= fields.len()"

\* a corner holding as many contestants as it has neighbors is re-placed
C8_Witness ==
    /\ pc = "resolve"
    /\ ScanCell.tag = "Collision"
    /\ Len(ScanCell.specimens) = NeighborhoodSize(it.x, it.y)
    /\ Population(board) > Len(ScanCell.specimens)

RECURSIVE EnergyOfSeq(_)
EnergyOfSeq(ss) ==
    IF ss = <<>> THEN <<0, 1>>
    ELSE RAdd(Head(ss).energy, EnergyOfSeq(Tail(ss)))

RECURSIVE EnergyUpTo(_, _)
EnergyUpTo(b, n) ==
    IF n = 0 THEN <<0, 1>>
    ELSE RAdd(EnergyOfSeq(b[n - 1].specimens), EnergyUpTo(b, n - 1))

\* the energy of all specimens on a board
Energy(b) == EnergyUpTo(b, Cardinality(DOMAIN b))

\* C4 as stated: after an advance() in which no specimen died, the energy
\* on the grid plus the pool equals the energy before minus the live count
\* times energy_loss_per_step.
C4_AsStated ==
    (Returned /\ Population(board) = pre.count) =>
        RAdd(Energy(board), collision_energy) =
           RSub(pre.energy,
                RMul(<<pre.count, 1>>, cfg.energy_loss_per_step))

\* C4, amended: after an advance() that returns, the energy on the grid
\* plus the pool equals the energy on the grid before plus the pool before:
\* the step loss and the energy of the dead move into the pool.
C4_EnergyMovesToPool ==
    Returned =>
        RAdd(Energy(board), collision_energy) = RAdd(pre.energy, pre.pool)

\* an advance() with a loss, a death and a resolution pass has returned
C4_Witness ==
    /\ Returned
    /\ cfg.energy_loss_per_step # <<0, 1>>
    /\ Population(board) < pre.count
    /\ coll_iters >= 1

\* the scenario's single specimen: the board holds it alone, with energy e
HoldsOnly(b, e) ==
    \E i \in DOMAIN b :
       /\ b[i] = [tag |-> "Occupied", specimens |-> <<[energy |-> e]>>]
       /\ \A j \in DOMAIN b \ {i} : b[j].tag = "Empty"

\* whether a - b is exactly the quotient q (in lowest terms)
DiffersBy(a, b, q) ==
    LET x == Aligned(a, b) IN Rat(x[1] - x[2], x[3]) = q

\* C9 as stated: in the scenario no Collision is ever created, every
\* advance() that returns leaves one Occupied cell whose energy is exactly
\* 0.1 (or exactly energy_loss_per_step, the f32 next to 0.1) below the
\* energy before the call, and the advance() that panics with extinction
\* is the first in which the energy after the loss is below 0.0.
C9_AsStated ==
    /\ ~HoldsCollision(board) /\ ~HoldsCollision(new)
    /\ Returned =>
          /\ \E e \in {board[i].specimens[1].energy :
                          i \in {j \in DOMAIN board :
                                    board[j].tag = "Occupied"}} :
                /\ HoldsOnly(board, e)
                /\ \/ DiffersBy(pre.energy, e, <<1, 10>>)
                   \/ DiffersBy(pre.energy, e, cfg.energy_loss_per_step)
          /\ ~RLt(Energy(board), <<0, 1>>)
    /\ fatal = "all specimens died" =>
          RLt(RSub(pre.energy, cfg.energy_loss_per_step), <<0, 1>>)

\* C9, amended: in the scenario no Collision is ever created, every
\* advance() that returns leaves one Occupied cell whose energy is the f32
\* difference of the energy before the call and energy_loss_per_step,
\* which is within 2^-24 of 0.1 below it, and the advance() that panics
\* with extinction is the first in which the energy after the loss is
\* below 0.0.
C9_Scenario ==
    /\ ~HoldsCollision(board) /\ ~HoldsCollision(new)
    /\ Returned =>
          /\ HoldsOnly(board, RSub(pre.energy, cfg.energy_loss_per_step))
          /\ LET x == Aligned(pre.energy, Energy(board))
             IN  F32Significand * Abs(10 * (x[1] - x[2]) - x[3]) < 10 * x[3]
          /\ ~RLt(Energy(board), <<0, 1>>)
    /\ fatal \in {"none", "all specimens died"}
    /\ fatal = "all specimens died" =>
          RLt(RSub(pre.energy, cfg.energy_loss_per_step), <<0, 1>>)

\* the tenth advance() ended in the extinction panic: nine losses left the
\* specimen less than 0.1
C9_Witness ==
    /\ fatal = "all specimens died"
    /\ iteration = 9
    /\ step.kind = "died"
    /\ RLt(pre.energy, cfg.energy_loss_per_step)

\* C10: once a resolution pass ran, the pool is zero: later passes of the
\* same advance() hand out nothing and leave every energy as it is, and
\* advance() returns with collision_energy = 0.
C10_PoolResetByPass ==
    /\ [](coll_iters >= 1 /\ pc \in {"loop", "resolve", "idle"}
             => collision_energy = <<0, 1>>)
    /\ [](coll_iters >= 1 /\ pc = "resolve" => energy_gain = <<0, 1>>)
    /\ [][(coll_iters >= 1 /\ pc = "resolve" /\ pc' = "loop")
             => Energy(board') = Energy(board)]_vars
    /\ [][(coll_iters = 0 /\ pc = "resolve" /\ pc' = "loop")
             => Energy(board') = RAdd(Energy(board), collision_energy)]_vars

\* a second pass re-places a Collision after the first one handed out the pool
C10_Witness ==
    /\ pc = "resolve"
    /\ coll_iters >= 1
    /\ step.kind = "split"
    /\ cfg.energy_loss_per_step # <<0, 1>>
    /\ Energy(board) # pre.energy

\* the clamped 3x3 neighborhood of slot i
Neighborhood(i) ==
    {j \in 0 .. (width * height - 1) :
        Near(i % width, i \div width, j % width, j \div width)}

\* no other specimen stands in the neighborhood of a Collision cell, and
\* the neighborhoods of two Collision cells share no cell
Isolated(b) ==
    \A i \in DOMAIN b :
       b[i].tag = "Collision" =>
          \A j \in DOMAIN b \ {i} :
             /\ b[j].tag = "Occupied" => j \notin Neighborhood(i)
             /\ b[j].tag = "Collision" =>
                   Neighborhood(i) \cap Neighborhood(j) = {}

\* C2 as stated: whenever the loop of advance() stands before a grid with a
\* Collision cell, it reaches a grid without one, whatever the shuffles.
C2_AsStated ==
    (pc = "loop" /\ HoldsCollision(board))
        ~> (pc = "loop" /\ ~HoldsCollision(board))

\* C2, amended: when no other specimen stands in the 3x3 neighborhood of
\* any Collision cell and these neighborhoods do not overlap, the pass
\* leaves zero Collision cells for every shuffle, so the loop ends after
\* that one pass.
C2_IsolatedCollisionsResolve ==
    [][(pc = "resolve" /\ pc' = "loop" /\ Isolated(board))
          => ~HoldsCollision(board')]_vars

\* the pass over an isolated Collision with a bystander is at its last cell
C2_Witness ==
    /\ pc = "resolve"
    /\ ~IterHasNext(IterNext(it))
    /\ HoldsCollision(board)
    /\ Isolated(board)
    /\ \E i \in DOMAIN board : board[i].tag = "Occupied"

\* ----------------------------------------------------- construction claims
\* the configuration new() asserts against
Rejected == width < 2 \/ height < 2 \/ cfg.num_specimens > width * height

AssertionsOfNew ==
    {"assertion failed: width >= 2", "assertion failed: height >= 2",
     "assertion failed: cfg.num_specimens <= width * height"}

\* C11: when num_specimens > width*height, or width < 2, or height < 2,
\* new() ends in one of its assertion panics and produces no engine: the
\* program never gets past new() and nothing is seeded.
C11_NewRejects ==
    Rejected =>
       /\ pc \in {"new", "panic"}
       /\ pc = "panic" => fatal \in AssertionsOfNew
       /\ placed = 0
       /\ board = BoardNew(width, height, Empty)

\* new() has panicked over num_specimens alone, on a board of legal extents
C11_Witness ==
    /\ pc = "panic"
    /\ width >= 2 /\ height >= 2
    /\ cfg.num_specimens > width * height
    /\ fatal = "assertion failed: cfg.num_specimens <= width * height"

\* new() has returned an engine
Built == pc = "idle" /\ iteration = 0

\* C12: the engine new() returns has exactly num_specimens Occupied cells,
\* each with energy initial_specimen_energy, every other cell Empty, a pool
\* of 0 and generation counter 0.
C12_SeededGrid ==
    Built =>
       /\ Cardinality({i \in DOMAIN board : board[i].tag = "Occupied"})
             = cfg.num_specimens
       /\ \A i \in DOMAIN board :
             \/ board[i] = [tag |-> "Empty", specimens |-> <<>>]
             \/ board[i] = [tag |-> "Occupied",
                            specimens |->
                               <<[energy |-> cfg.initial_specimen_energy]>>]
       /\ collision_energy = <<0, 1>>
       /\ iteration = 0

\* new() returned after seeding the last of several specimens, with cells
\* left Empty
C12_Witness ==
    /\ Built
    /\ cfg.num_specimens >= 3
    /\ step.kind = "seeded"
    /\ placed = cfg.num_specimens
    /\ \E i \in DOMAIN board : board[i].tag = "Empty"

\* C13 as stated: with width >= 2, height >= 2 and num_specimens <=
\* width*height, new() never ends in the seeding-exhaustion panic.
C13_AsStated ==
    ~Rejected => fatal # "could not find an empty field"

\* ------------------------------------------------------------ board claims
InBounds(x, y) == x < width /\ y < height

\* C14: a write through at_mut(x, y) with (x, y) in bounds lands in slot
\* y*width + x, at(x, y) then reads the value written, and at(x', y')
\* reads what it read before for every other in-bounds (x', y').
C14_WriteThenRead ==
    [][(pc' = "board" /\ step'.kind = "at_mut"
           /\ InBounds(step'.x, step'.y))
          => /\ at(board', width, step'.x, step'.y) = out'[1]
             /\ board'[step'.y * width + step'.x] = out'[1]
             /\ \A x \in 0 .. (width - 1), y \in 0 .. (height - 1) :
                   <<x, y>> # <<step'.x, step'.y>>
                      => at(board', width, x, y) = at(board, width, x, y)]_vars

\* a 1 was written in bounds, off the first row and column, next to a 1
C14_Witness ==
    /\ pc = "board"
    /\ step.kind = "at_mut"
    /\ InBounds(step.x, step.y)
    /\ step.x >= 1 /\ step.y >= 1
    /\ out = <<1>>
    /\ at(board, width, step.x - 1, step.y) = 1
    /\ at(board, width, step.x, step.y - 1) = 0

\* C15 as stated: a call at(x, y) or at_mut(x, y) that returned had
\* x < width and y < height: out of bounds, the call is fatal.
C15_AsStated ==
    (pc = "board" /\ step.kind \in {"at", "at_mut"})
       => InBounds(step.x, step.y)

\* the k-th coordinate of the row-major order of a board w wide
RowMajor(k, w) == <<(k - 1) % w, (k - 1) \div w>>

\* the scan is running, or has just ended
Scanning ==
    \/ pc = "indices"
    \/ pc = "board" /\ step.kind = "indices_end"

\* C16: the items indices() has yielded are the first coordinates of the
\* row-major order, pairwise distinct, at most width*height of them; None
\* comes after exactly width*height items and leaves the iterator as it
\* is, so that next() returns None from then on.
C16_RowMajorScan ==
    Scanning =>
       /\ Len(out) <= width * height
       /\ \A k \in 1 .. Len(out) : out[k] = RowMajor(k, width)
       /\ \A j, k \in 1 .. Len(out) : j # k => out[j] # out[k]
       /\ IterHasNext(it) <=> Len(out) < width * height
       /\ step.kind = "indices_end"
             => Len(out) = width * height /\ ~IterHasNext(it)
       /\ fatal = "none"

\* the scan of the 3x2 board has ended with None
C16_Witness ==
    /\ pc = "board"
    /\ step.kind = "indices_end"
    /\ width = 3 /\ height = 2
    /\ out = <<<<0, 0>>, <<1, 0>>, <<2, 0>>, <<0, 1>>, <<1, 1>>, <<2, 1>>>>

\* the offsets (dx, dy) in raster order, the center left out
Offsets ==
    <<<<0, 0>>, <<1, 0>>, <<2, 0>>, <<0, 1>>, <<2, 1>>,
      <<0, 2>>, <<1, 2>>, <<2, 2>>>>

\* the enumeration around an in-bounds cell of an NxN grid, N >= 3, is
\* running or has just ended
OnTorus ==
    /\ \/ pc = "torus"
       \/ pc = "board" /\ step.kind = "torus_end"
       \/ pc = "panic" /\ step.kind \in {"torus", "neighbor"}
    /\ it.x_end = it.y_end /\ it.x_end >= 3
    /\ it.x < it.x_end /\ it.y < it.y_end

\* C17: around an in-bounds cell of an NxN grid with N >= 3, the items
\* torus_neighbors has yielded are ((x+dx-1) mod N, (y+dy-1) mod N) for the
\* offsets in raster order without (1,1): in bounds, pairwise distinct,
\* none the cell itself; None comes after exactly 8 items and the
\* assertion of torus_sub_1 never fails.
C17_TorusNeighbors ==
    OnTorus =>
       /\ Len(out) <= 8
       /\ \A k \in 1 .. Len(out) :
             /\ out[k] = <<(it.x + it.x_end + Offsets[k][1] - 1) % it.x_end,
                           (it.y + it.y_end + Offsets[k][2] - 1) % it.y_end>>
             /\ out[k][1] < it.x_end /\ out[k][2] < it.y_end
             /\ out[k] # <<it.x, it.y>>
       /\ \A j, k \in 1 .. Len(out) : j # k => out[j] # out[k]
       /\ it.idx = 9 <=> Len(out) = 8
       /\ step.kind = "torus_end" => Len(out) = 8
       /\ pc # "panic"

\* the enumeration around the far corner of the 3x3 grid has ended
C17_Witness ==
    /\ pc = "board"
    /\ step.kind = "torus_end"
    /\ it.x = 2 /\ it.y = 2 /\ it.x_end = 3 /\ it.y_end = 3
    /\ out = <<<<1, 1>>, <<2, 1>>, <<0, 1>>, <<1, 2>>, <<0, 2>>,
               <<1, 0>>, <<2, 0>>, <<0, 0>>>>

\* ------------------------------------------------------- statistics claims
OccupiedSlots(b) == {i \in DOMAIN b : b[i].tag = "Occupied"}
OccupiedEnergy(b) == {b[i].specimens[1].energy : i \in OccupiedSlots(b)}

\* the sum over the first n slots of the squared deviations from avg
RECURSIVE SquaredDeviations(_, _, _)
SquaredDeviations(b, avg, n) ==
    IF n = 0 THEN <<0, 1>>
    ELSE IF b[n - 1].tag = "Occupied"
    THEN LET d == RSub(b[n - 1].specimens[1].energy, avg)
         IN  RAdd(SquaredDeviations(b, avg, n - 1), RMul(d, d))
    ELSE SquaredDeviations(b, avg, n - 1)

\* two f32 radicands whose square roots can be the same f32: both finite
\* and no further apart than 2^-22 of the greater
SameRoot(a, b) ==
    /\ a[2] # 0 /\ b[2] # 0
    /\ LET x == Aligned(a, b)
       IN  Abs(x[1] - x[2]) <= Max(Abs(x[1]), Abs(x[2])) \div 4194304

\* C18 as stated: the statistics handed out at the end of a generation
\* are those of the Occupied specimens of the final grid: their number,
\* their least and greatest energy, avg = sum / count, and a standard
\* deviation that is the square root of (sum of squared deviations from
\* avg) / count.
C18_AsStated ==
    Returned =>
       LET count == Cardinality(OccupiedSlots(board))
           avg == RDiv(Energy(board), <<count, 1>>)
       IN  /\ out.specimens = count
           /\ out.min_energy \in OccupiedEnergy(board)
           /\ out.max_energy \in OccupiedEnergy(board)
           /\ \A e \in OccupiedEnergy(board) :
                 ~RLt(e, out.min_energy) /\ ~RLt(out.max_energy, e)
           /\ out.avg_energy = avg
           /\ SameRoot(out.variance_energy,
                       RDiv(SquaredDeviations(board, avg,
                                              Cardinality(DOMAIN board)),
                            <<count, 1>>))

\* ------------------------------------------------------------ merge claims
\* a scan step that called move_specimen once: a move of the movement
\* phase, or an Occupied cell kept by a resolution pass
Merged ==
    \/ pc = "move" /\ step'.kind = "moved" /\ it' # it
    \/ pc = "resolve" /\ step'.kind = "kept" /\ it' # it

\* C19: move_specimen(specimen, x, y, grid) turns an Empty destination
\* into Occupied(specimen), Occupied(other) into Collision([other,
\* specimen]) and Collision(list) into Collision(list + [specimen]); the
\* grid's specimen count grows by 1 and every other cell stays as it is.
C19_MergeRule ==
    [][Merged =>
         LET t == step'.ty * width + step'.tx
             s == [energy |-> step'.energy]
         IN  /\ new[t].tag = "Empty" =>
                   new'[t] = [tag |-> "Occupied", specimens |-> <<s>>]
             /\ new[t].tag = "Occupied" =>
                   new'[t] = [tag |-> "Collision",
                              specimens |-> <<new[t].specimens[1], s>>]
             /\ new[t].tag = "Collision" =>
                   new'[t] = [tag |-> "Collision",
                              specimens |-> Append(new[t].specimens, s)]
             /\ Population(new') = Population(new) + 1
             /\ \A j \in DOMAIN new \ {t} : new'[j] = new[j]]_vars

\* a move has just added a third contestant, of another energy than the
\* first, to a Collision
C19_Witness ==
    /\ step.kind = "moved"
    /\ pc \in {"move", "loop"}
    /\ LET f == new[step.ty * width + step.tx]
       IN  /\ f.tag = "Collision"
           /\ Len(f.specimens) = 3
           /\ f.specimens[3].energy = step.energy
           /\ f.specimens[1].energy # step.energy

\* ------------------------------------------------------------- pool claims
\* the entitlements k * gain of the Collision cells among the first n
\* slots, added up
RECURSIVE EntitlementsUpTo(_, _, _)
EntitlementsUpTo(b, gain, n) ==
    IF n = 0 THEN <<0, 1>>
    ELSE IF b[n - 1].tag = "Collision"
    THEN RAdd(EntitlementsUpTo(b, gain, n - 1),
              RMul(<<Len(b[n - 1].specimens), 1>>, gain))
    ELSE EntitlementsUpTo(b, gain, n - 1)

Entitlements(b, gain) == EntitlementsUpTo(b, gain, Cardinality(DOMAIN b))

\* the contestants of all Collision cells
Contestants(b) ==
    Population(b) - Cardinality({i \in DOMAIN b : b[i].tag = "Occupied"})

\* a resolution pass is running: board is the grid being resolved and
\* collision_energy the pool P it began with
InPass == pc = "resolve"

\* the entitlement of every Collision cell the pass has come to is
\* k * (P / C), whatever its place and the other cells
EntitledByCount ==
    InPass =>
       /\ energy_gain = RDiv(collision_energy, <<Contestants(board), 1>>)
       /\ step.kind = "split" =>
             step.energy =
                RMul(<<Len(board[step.y * width + step.x].specimens), 1>>,
                     RDiv(collision_energy, <<Contestants(board), 1>>))

\* C20 as stated: every Collision cell with k contestants is entitled to
\* k * (P / C), and the entitlements of the pass sum to P.
C20_AsStated ==
    /\ EntitledByCount
    /\ InPass => Entitlements(board, energy_gain) = collision_energy

\* C20, amended: every Collision cell with k contestants is entitled to
\* the f32 product k * (P / C), and the entitlements of the pass sum to P
\* up to f32 rounding: they differ from P by less than 2^-21 of it.
C20_PoolApportioned ==
    /\ EntitledByCount
    /\ InPass =>
          LET x == Aligned(Entitlements(board, energy_gain), collision_energy)
          IN  Abs(x[1] - x[2]) <= Abs(x[2]) \div 2097152

\* a pass hands a pool that is no dyadic fraction to two Collision cells,
\* and has come to the second
C20_Witness ==
    /\ InPass
    /\ step.kind = "split"
    /\ collision_energy[2] > 1
    /\ Cardinality({i \in DOMAIN board : board[i].tag = "Collision"}) = 2
    /\ step.y * width + step.x
          = CHOOSE i \in DOMAIN board :
               /\ board[i].tag = "Collision"
               /\ \A j \in DOMAIN board : board[j].tag = "Collision" => j <= i

\* ------------------------------------------------------------ split claims
\* exact sums and differences of f32 values, which are dyadic fractions
XAdd(a, b) == LET x == Aligned(a, b) IN Rat(x[1] + x[2], x[3])
XSub(a, b) == LET x == Aligned(a, b) IN Rat(x[1] - x[2], x[3])

RECURSIVE XSum(_)
XSum(ss) == IF ss = <<>> THEN <<0, 1>> ELSE XAdd(Head(ss).energy, XSum(Tail(ss)))

\* the orderings of 1 .. n
Orderings(n) ==
    {p \in [1 .. n -> 1 .. n] : \A i, j \in 1 .. n : i # j => p[i] # p[j]}

\* split_energy has returned from a call with a non-empty list
Split == pc = "split_done" /\ args.specimens # <<>>

\* the result is the list in an order p ascending by original energy, p[1]
\* being the earliest of the weakest, with the first energy replaced by e1
WeakestFirst(e1(_)) ==
    LET ss == args.specimens
    IN  /\ Len(out) = Len(ss)
        /\ \E p \in Orderings(Len(ss)) :
              /\ \A k \in 1 .. (Len(ss) - 1) :
                    ~RLt(ss[p[k + 1]].energy, ss[p[k]].energy)
              /\ \A j \in 1 .. Len(ss) :
                    /\ ~RLt(ss[j].energy, ss[p[1]].energy)
                    /\ j < p[1] => RLt(ss[p[1]].energy, ss[j].energy)
              /\ out[1] = [energy |-> e1(ss[p[1]].energy)]
              /\ \A k \in 2 .. Len(ss) : out[k] = ss[p[k]]

\* the weakest's energy and the entitlement, added exactly and in f32
PlusEntitlement(e) == XAdd(e, args.available_energy)
PlusEntitlementF32(e) == RAdd(e, args.available_energy)

\* C21 as stated: split_energy returns as many specimens, ascending by
\* original energy, the first (the earliest of the weakest) with its
\* energy plus the entire entitlement E and the others unchanged; the sum
\* of the energies grows by exactly E.
C21_AsStated ==
    Split =>
       /\ WeakestFirst(PlusEntitlement)
       /\ XSub(XSum(out), XSum(args.specimens)) = args.available_energy

\* C21, amended: split_energy returns as many specimens, ascending by
\* original energy, the first (the earliest of the weakest) with the f32
\* sum of its energy and the entire entitlement E and the others
\* unchanged; the sum of the energies grows by E up to the rounding of
\* that one addition, at most 2^-24 of the first's new energy.
C21_WeakTakesAll ==
    Split =>
       /\ WeakestFirst(PlusEntitlementF32)
       /\ LET growth == XSub(XSum(out), XSum(args.specimens))
              x == Aligned(XSub(growth, args.available_energy), out[1].energy)
          IN  Abs(x[1]) <= Abs(x[2]) \div F32Significand

\* three contestants, the weakest two tied and the later of them placed
\* first, were handed an entitlement whose sum with 0.9 is no f32
C21_Witness ==
    /\ Split
    /\ Len(args.specimens) = 3
    /\ args.specimens[1].energy = RInt(2)
    /\ args.specimens[2].energy = F32Round(9, 10)
    /\ args.specimens[3].energy = F32Round(9, 10)
    /\ args.available_energy = F32Round(1, 5)
    /\ out[1].energy # XAdd(F32Round(9, 10), F32Round(1, 5))
    /\ out[3].energy = RInt(2)

\* ------------------------------------------------------ re-placement claims
\* the cells of the grid under construction that the step writes
Written == {c \in DOMAIN new : new'[c] # new[c]}

\* the step appends one specimen to cell c of the grid under construction
GainsOne(c) ==
    /\ Len(new'[c].specimens) = Len(new[c].specimens) + 1
    /\ SubSeq(new'[c].specimens, 1, Len(new[c].specimens)) = new[c].specimens
    /\ new'[c].tag = IF new[c].specimens = <<>> THEN "Occupied" ELSE "Collision"

\* a step of the scan of a resolution pass that is not a panic
PassStep == pc = "resolve" /\ it' # it

\* C22: in a resolution pass the contestants of one Collision cell at (x,y)
\* go to pairwise distinct cells, one each, in bounds and in the clamped
\* 3x3 neighborhood of (x,y); every Occupied specimen goes to its own
\* coordinate with its energy; a cell of the new grid turns Collision only
\* when it already held a specimen from another source cell.
C22_Replacement ==
    [][PassStep =>
         CASE ScanCell.tag = "Collision" ->
                /\ Cardinality(Written) = Len(ScanCell.specimens)
                /\ \A c \in Written :
                      /\ Near(it.x, it.y, c % width, c \div width)
                      /\ GainsOne(c)
           [] ScanCell.tag = "Occupied" ->
                /\ Written = {ScanSlot}
                /\ GainsOne(ScanSlot)
                /\ new'[ScanSlot].specimens[Len(new'[ScanSlot].specimens)]
                      = ScanCell.specimens[1]
           [] ScanCell.tag = "Empty" -> Written = {}]_vars

\* three contestants of one cell were just re-placed, one of them onto a
\* specimen that came from another cell
C22_Witness ==
    /\ pc = "resolve"
    /\ step.kind = "split"
    /\ Len(board[step.y * width + step.x].specimens) = 3
    /\ HoldsCollision(new)
    /\ Population(new) = 4

\* ---------------------------------------------------------- seeding claims
Exhausted == fatal = "could not find an empty field"

\* the cell of the probe the step made
ProbedSlot == step'.y * width + step'.x

\* C23: find_empty_field makes at most width*height probes, each in
\* bounds; a probe of a non-empty cell changes nothing but the count; the
\* first probe of an Empty cell is returned, the grid untouched until new()
\* writes that very cell; the seeding-exhaustion panic comes exactly with
\* the width*height-th probe of a non-empty cell.
C23_ProbesOfFindEmptyField ==
    /\ [](pc = "seed" => probes < width * height)
    /\ [](Exhausted => pc = "panic" /\ probes + 1 = width * height)
    /\ [][pc = "seed" =>
             CASE pc' = "panic" ->
                    /\ Exhausted'
                    /\ probes + 1 = width * height
                    /\ board' = board
                    /\ \E i \in DOMAIN board : board[i].tag # "Empty"
               [] pc' # "panic" /\ placed' = placed ->
                    /\ probes' = probes + 1
                    /\ probes' < width * height
                    /\ InBounds(step'.x, step'.y)
                    /\ board[ProbedSlot].tag # "Empty"
                    /\ board' = board
               [] pc' # "panic" /\ placed' # placed ->
                    /\ placed' = placed + 1
                    /\ InBounds(step'.x, step'.y)
                    /\ board[ProbedSlot].tag = "Empty"
                    /\ \A i \in DOMAIN board \ {ProbedSlot} :
                          board'[i] = board[i]]_vars

\* with specimens already seeded on a board that has Empty cells left,
\* width*height probes in a row hit non-empty cells
C23_Witness ==
    /\ Exhausted
    /\ placed >= 2
    /\ step.kind = "probed"
    /\ probes = width * height - 1
    /\ board[step.y * width + step.x].tag = "Occupied"
    /\ \E i \in DOMAIN board : board[i].tag = "Empty"

\* ------------------------------------------------------------- life claims
\* the eight offsets around a cell
Around == ({-1, 0, 1} \X {-1, 0, 1}) \ {<<0, 0>>}

\* how many of the eight toroidal neighbors of (x, y) are alive in b
AliveAround(b, x, y) ==
    Cardinality({d \in Around :
                    b[((y + d[2] + height) % height) * width
                         + ((x + d[1] + width) % width)]})

\* the generation after b by the rule of the Game of Life
Generation(b) ==
    [i \in DOMAIN b |->
        LET n == AliveAround(b, i % width, i \div width)
        IN  \/ (~b[i] /\ n = 3)
            \/ (b[i] /\ n \in {2, 3})]

\* C24: advance(old) leaves old as it is and returns a board of the same
\* width and height in which a cell is alive exactly when it was dead with
\* 3 of its 8 toroidal neighbors alive in old, or alive with 2 or 3; what
\* is already written to the new board has no part in it.
C24_LifeStep ==
    /\ pc = "life_scan" =>
          /\ board = args.old
          /\ DOMAIN new = DOMAIN args.old
          /\ \A i \in 0 .. (ScanSlot - 1) : new[i] = Generation(args.old)[i]
    /\ (pc = "life" /\ step.kind = "life_end") =>
          /\ out = <<Generation(args.old)>>
          /\ board = Generation(args.old)
          /\ DOMAIN board = 0 .. (width * height - 1)

\* on the 3x3 torus three live cells gave birth to the other six and
\* lived on
C24_Witness ==
    /\ pc = "life"
    /\ step.kind = "life_end"
    /\ width = 3 /\ height = 3
    /\ Cardinality({i \in DOMAIN args.old : args.old[i]}) = 3
    /\ \A i \in DOMAIN board : board[i]

\* ------------------------------------------------------ conservation claims
\* the energies of all specimens among the first n slots, added exactly
RECURSIVE ExactEnergyUpTo(_, _)
ExactEnergyUpTo(b, n) ==
    IF n = 0 THEN <<0, 1>>
    ELSE XAdd(ExactEnergyUpTo(b, n - 1), XSum(b[n - 1].specimens))

\* the energy on the grid plus the pool, added exactly
ExactTotal ==
    XAdd(ExactEnergyUpTo(board, Cardinality(DOMAIN board)), collision_energy)

\* num_specimens x initial_specimen_energy, exactly
SeededTotal ==
    Rat(cfg.num_specimens * cfg.initial_specimen_energy[1],
        cfg.initial_specimen_energy[2])

\* C25: where the engine's arithmetic is exact (energies, losses and pools
\* that are small integers), the energy on the grid plus the pool is after
\* every advance() that returns what it was before the call, and between
\* the generations it is always num_specimens x initial_specimen_energy.
C25_EnergyConserved ==
    /\ Returned => ExactTotal = XAdd(pre.energy, pre.pool)
    /\ pc = "idle" => ExactTotal = SeededTotal

\* the second advance() has returned after a loss, a death and a pass that
\* handed the pool out: a specimen has more than the initial energy
C25_Witness ==
    /\ Returned
    /\ iteration = 2
    /\ cfg.energy_loss_per_step # <<0, 1>>
    /\ Population(board) < pre.count
    /\ coll_iters >= 1
    /\ \E i \in DOMAIN board :
          /\ board[i].tag = "Occupied"
          /\ RLt(cfg.initial_specimen_energy, board[i].specimens[1].energy)

\* -------------------------------------------------------- population claims
\* the specimens of b that the loss of one step leaves below the margin
Dying(b) ==
    Cardinality({i \in DOMAIN b :
                    /\ b[i].tag = "Occupied"
                    /\ RLt(ReducedEnergy(b[i]), cfg.deadly_energy_margin)})

\* C26: every resolution pass leaves the specimen count as it is; the
\* movement phase takes off it exactly the specimens whose energy after
\* the loss is below deadly_energy_margin, so that an advance() that
\* returns leaves the count before minus those; the population never
\* grows and never exceeds num_specimens, and the grid keeps its width and
\* height through all generations.
C26_PopulationAccounting ==
    /\ [][(pc = "resolve" /\ pc' = "loop")
             => Population(board') = Population(board)]_vars
    /\ [][(pc = "move" /\ pc' = "loop")
             => /\ pre.count = Population(board)
                /\ Population(board') = Population(board) - Dying(board)
                /\ specimens' = Population(board')]_vars
    /\ [](pc \in {"loop", "resolve"} \/ Returned
             => /\ Population(board) = specimens
                /\ Population(board) <= pre.count)
    /\ [](Population(board) <= cfg.num_specimens)
    /\ [](DOMAIN board = 0 .. (width * height - 1))
    /\ [][width' = width /\ height' = height]_vars

\* the second advance() has returned: two of four specimens died in it and
\* the two left went through a resolution pass
C26_Witness ==
    /\ Returned
    /\ iteration = 2
    /\ pre.count = 4
    /\ Population(board) = 2
    /\ specimens = 2
    /\ coll_iters >= 1

====
